---- MODULE Spec2Model ----
(***************************************************************************)
(* A model of the checkpoint store (src/src/agents/redis_checkpointer.py)  *)
(* and of the interview loop (src/cli_interview.py) of readwren.           *)
(*                                                                         *)
(* Strings are sequences of atoms: ":" is the key separator, "*" the glob  *)
(* wildcard of Redis KEYS, "latest" the alias word; every other atom is a  *)
(* block of ordinary characters.  No atom is a prefix or a suffix of       *)
(* another, so prefix, suffix and equality tests on the sequences agree    *)
(* with the tests on the character strings they stand for.                 *)
(***************************************************************************)
EXTENDS Integers, Sequences, FiniteSets, TLC

VARIABLES
    redis,                \* the Redis keyspace: key -> [val, exp]
    now,                  \* the Redis server clock, in TTL units
    inflight,             \* per client: the put between its two SETEX calls
    last_write,           \* the last event that changed the keyspace or the clock
    ret,                  \* the last completed call: its arguments and result
    written,              \* every key a put wrote as a specific-id key
    nputs,                \* number of puts started
    put_time,             \* per (thread_id, checkpoint_ns, id) put: the time of its last SETEX
    conversation_history, \* cli_interview.py: the tracked conversation
    turn_count,           \* cli_interview.py: the local turn counter
    pc,                   \* cli_interview.py: where main() stands
    completion_status,    \* the completion_status main() last decided
    user_input,           \* the stripped input of the current iteration
    response,             \* the agent's reply to the current input
    decision,             \* outcome of the completion test of the last turn
    profile_calls,        \* the metadata of every generate_profile call
    sent,                 \* every input handed to agent.send_message
    event,                \* the last step main() took
    nfail                 \* number of failures raised inside the completion block

storeVars == <<redis, now, inflight, last_write, ret, written, nputs, put_time>>
loopVars == <<conversation_history, turn_count, pc, completion_status, user_input,
              response, decision, profile_calls, sent, event, nfail>>
vars == <<redis, now, inflight, last_write, ret, written, nputs, put_time,
          conversation_history, turn_count, pc, completion_status, user_input,
          response, decision, profile_calls, sent, event, nfail>>

---------------------------------------------------------------------------
(* Bounds of the model *)

MaxPuts == 2
MaxTime == 3
MaxSaveFailures == 1
MaxReasoned == 1

---------------------------------------------------------------------------
(* Strings *)

\* Python's None where a string is optional
None == <<"<None>">>

\* Python truthiness of an optional string: None and "" are falsy
Truthy(s) == s # None /\ s # <<>>

RECURSIVE join(_, _)
\* sep.join(parts)
join(sep, parts) ==
    IF Len(parts) = 0 THEN <<>>
    ELSE IF Len(parts) = 1 THEN parts[1]
    ELSE parts[1] \o sep \o join(sep, Tail(parts))

\* s.endswith(suffix)
endswith(s, suffix) ==
    /\ Len(s) >= Len(suffix)
    /\ SubSeq(s, Len(s) - Len(suffix) + 1, Len(s)) = suffix

RECURSIVE glob(_, _)
\* Redis glob matching of KEYS pattern: "*" any run of characters, "?" any one
glob(p, s) ==
    IF p = <<>> THEN s = <<>>
    ELSE IF Head(p) = "*" THEN glob(Tail(p), s) \/ (s # <<>> /\ glob(p, Tail(s)))
    ELSE IF Head(p) = "?" THEN s # <<>> /\ glob(Tail(p), Tail(s))
    ELSE s # <<>> /\ Head(s) = Head(p) /\ glob(Tail(p), Tail(s))

---------------------------------------------------------------------------
(* RedisCheckpointSaver: construction *)

\* self.namespace, the default "langgraph:checkpoint"
namespace == <<"langgraph", ":", "checkpoint">>

\* self.ttl in clock units (the default is 86400 seconds)
ttl == 2

\* the inputs of the store's operations: (thread_id, checkpoint_ns) pairs,
\* checkpoint ids, and the concurrent callers
Addresses == {<<<<"s">>, <<>>>>, <<<<"s">>, <<"n">>>>, <<<<"s", ":", "n">>, <<>>>>}
ThreadIds == {a[1] : a \in Addresses}
CheckpointIds == {<<"x">>, <<"y">>}
Clients == {1, 2}
Limits == {0, 1}

\* limit=None of list(): no limit given
NoLimit == -1

\* a LangGraph checkpoint: a dict with its "id" and its channel values; the
\* n-th put carries the channel values n and the metadata of step n
Checkpoint(id, n) == [id |-> id, v |-> n]
Metadata(n) == [step |-> n]

\* config["configurable"] as the caller passes it
Config(thread_id, checkpoint_ns, checkpoint_id) ==
    [thread_id |-> thread_id, checkpoint_ns |-> checkpoint_ns,
     checkpoint_id |-> checkpoint_id]

_make_key(thread_id, checkpoint_ns, checkpoint_id) ==
    LET parts0 == <<namespace, thread_id>>
        parts1 == IF checkpoint_ns # <<>> THEN Append(parts0, checkpoint_ns)
                  ELSE parts0
        parts2 == IF Truthy(checkpoint_id) THEN Append(parts1, checkpoint_id)
                  ELSE Append(parts1, <<"latest">>)
    IN  join(<<":">>, parts2)

\* a plausible slip: the alias key built without the checkpoint namespace
latest_key_without_ns(thread_id, checkpoint_ns) == _make_key(thread_id, <<>>, None)

\* put, line 98: the key of the latest alias
latest_key(thread_id, checkpoint_ns) == _make_key(thread_id, checkpoint_ns, None)

---------------------------------------------------------------------------
(* Redis *)

\* a key exists until its expiry time is reached
Live(store, t, k) == k \in DOMAIN store /\ store[k].exp > t

\* a plausible slip: a write that is not atomic and has replaced only the
\* first item of an existing value when a reader comes
setex_torn(store, t, key, seconds, value) ==
    [k \in DOMAIN store \cup {key} |->
        IF k = key
        THEN [val |-> IF key \in DOMAIN store
                      THEN <<value[1]>> \o Tail(store[key].val) ELSE value,
              exp |-> t + seconds]
        ELSE store[k]]

\* a plausible slip: the value set with the expiry of an existing key kept
\* (SET key value KEEPTTL)
setex_keepttl(store, t, key, seconds, value) ==
    [k \in DOMAIN store \cup {key} |->
        IF k = key
        THEN [val |-> value,
              exp |-> IF key \in DOMAIN store THEN store[key].exp ELSE t + seconds]
        ELSE store[k]]

\* SETEX key seconds value
setex(store, t, key, seconds, value) ==
    [k \in DOMAIN store \cup {key} |->
        IF k = key THEN [val |-> value, exp |-> t + seconds] ELSE store[k]]

\* KEYS pattern
keys(store, t, pattern) == {k \in DOMAIN store : Live(store, t, k) /\ glob(pattern, k)}

\* passive expiry: the keys the server has reclaimed at time t
Reclaim(store, t) == [k \in {j \in DOMAIN store : store[j].exp > t} |-> store[k]]

---------------------------------------------------------------------------
(* pickle *)

\* pickle.dumps of the dict put() builds: its items in insertion order
dumps(data) ==
    << <<"checkpoint", data.checkpoint>>, <<"metadata", data.metadata>>,
       <<"config", data.config>> >>

\* pickle.loads: the dict of the pickled items
loads(serialized) ==
    [checkpoint |-> serialized[1][2], metadata |-> serialized[2][2],
     config |-> serialized[3][2]]

\* a checkpoint with a channel value pickle.dumps cannot encode (a lambda, a
\* lock, an open file)
Unpicklable(id, n) == [id |-> id, v |-> n, handle |-> "lambda"]

\* pickle.dumps of the dict returns; it raises when the checkpoint holds a
\* value that cannot be pickled
picklable(data) == "handle" \notin DOMAIN data.checkpoint

\* bytes under a key that are no pickle of a record (truncated, or written by
\* something else)
Garbage == <<"garbage">>

\* pickle.loads of the bytes returns; it raises on garbage
loadable(serialized) == serialized # Garbage

---------------------------------------------------------------------------
(* RedisCheckpointSaver: operations *)

Idle == [busy |-> FALSE]

\* the record of the puts made: the address a put wrote to, stamped with the
\* time of the put's last SETEX
Stamp(log, address, t) ==
    [a \in DOMAIN log \cup {address} |-> IF a = address THEN t ELSE log[a]]

\* put, lines 73-91: the record and the key of the specific id
PutRecord(thread_id, checkpoint_ns, checkpoint, metadata) ==
    LET safe_config == Config(thread_id, checkpoint_ns, checkpoint.id)
        data == [checkpoint |-> checkpoint, metadata |-> metadata,
                 config |-> safe_config]
    IN  dumps(data)

\* put, lines 94-95: the first SETEX, under the specific id
PutSpecific(c, thread_id, checkpoint_ns, checkpoint, metadata) ==
    LET serialized == PutRecord(thread_id, checkpoint_ns, checkpoint, metadata)
        key == _make_key(thread_id, checkpoint_ns, checkpoint.id)
    IN  /\ ~inflight[c].busy
        /\ nputs < MaxPuts
        /\ redis' = setex(redis, now, key, ttl, serialized)
        /\ inflight' = [inflight EXCEPT ![c] =
               [busy |-> TRUE, thread_id |-> thread_id,
                checkpoint_ns |-> checkpoint_ns, checkpoint |-> checkpoint,
                metadata |-> metadata, serialized |-> serialized, key |-> key,
                started |-> now]]
        /\ written' = written \cup {key}
        /\ nputs' = nputs + 1
        /\ put_time' = Stamp(put_time, <<thread_id, checkpoint_ns, checkpoint.id>>, now)
        /\ last_write' = [kind |-> "setex"]
        /\ ret' = [op |-> "setex", client |-> c]
        /\ UNCHANGED now

\* put, lines 98-101: the second SETEX, under the latest alias, and the return
PutLatest(c) ==
    LET p == inflight[c]
    IN  /\ p.busy
        /\ redis' = setex(redis, now, latest_key(p.thread_id, p.checkpoint_ns), ttl,
                          p.serialized)
        /\ inflight' = [inflight EXCEPT ![c] = Idle]
        /\ last_write' = [kind |-> "put", thread_id |-> p.thread_id,
                          checkpoint_ns |-> p.checkpoint_ns,
                          checkpoint |-> p.checkpoint, metadata |-> p.metadata,
                          started |-> p.started]
        /\ ret' = [op |-> "put", client |-> c,
                   config |-> Config(p.thread_id, p.checkpoint_ns, None)]
        /\ put_time' = Stamp(put_time, <<p.thread_id, p.checkpoint_ns, p.checkpoint.id>>,
                             now)
        /\ UNCHANGED <<now, written, nputs>>

\* get_tuple, lines 112-131
get_tuple(store, t, config) ==
    LET key == _make_key(config.thread_id, config.checkpoint_ns, config.checkpoint_id)
    IN  IF ~Live(store, t, key) THEN [found |-> FALSE]
        ELSE LET data == loads(store[key].val)
             IN  [found |-> TRUE, config |-> data.config,
                  checkpoint |-> data.checkpoint, metadata |-> data.metadata,
                  parent_config |-> data.config, key |-> key]

\* list, line 149: the pattern handed to KEYS
pattern(thread_id, checkpoint_ns) ==
    IF checkpoint_ns # <<>>
    THEN namespace \o <<":">> \o thread_id \o <<":">> \o checkpoint_ns \o <<":", "*">>
    ELSE namespace \o <<":">> \o thread_id \o <<":", "*">>

RECURSIVE list_loop_no_skip(_, _, _)
\* a plausible slip: the loop without the test that skips the alias keys
list_loop_no_skip(store, t, ks) ==
    IF ks = <<>> THEN <<>>
    ELSE IF ~Live(store, t, Head(ks)) THEN list_loop_no_skip(store, t, Tail(ks))
    ELSE LET data == loads(store[Head(ks)].val)
         IN  <<[config |-> data.config, checkpoint |-> data.checkpoint,
                metadata |-> data.metadata, parent_config |-> data.config,
                key |-> Head(ks)]>> \o list_loop_no_skip(store, t, Tail(ks))

RECURSIVE list_loop(_, _, _)
\* list, lines 152-166: the loop over the keys in the order KEYS gave them
list_loop(store, t, ks) ==
    IF ks = <<>> THEN <<>>
    ELSE IF endswith(Head(ks), <<":", "latest">>) THEN list_loop(store, t, Tail(ks))
    ELSE IF ~Live(store, t, Head(ks)) THEN list_loop(store, t, Tail(ks))
    ELSE LET data == loads(store[Head(ks)].val)
         IN  <<[config |-> data.config, checkpoint |-> data.checkpoint,
                metadata |-> data.metadata, parent_config |-> data.config,
                key |-> Head(ks)]>> \o list_loop(store, t, Tail(ks))

\* list, lines 168-172: limit is None or an integer
list(store, t, ks, limit) ==
    LET tuples == list_loop(store, t, ks)
    IN  IF limit # NoLimit /\ limit # 0
        THEN SubSeq(tuples, 1, IF limit < Len(tuples) THEN limit ELSE Len(tuples))
        ELSE tuples

\* list, lines 158-160: pickle.loads raises on the bytes of a key the loop
\* reads, and nothing in list catches it
list_raises(store, t, ks) ==
    \E i \in 1..Len(ks) :
        /\ ~endswith(ks[i], <<":", "latest">>)
        /\ Live(store, t, ks[i])
        /\ ~loadable(store[ks[i]].val)

\* list as its caller sees it: the exception, or the tuples returned
list_call(store, t, ks, limit) ==
    IF list_raises(store, t, ks) THEN [raised |-> TRUE]
    ELSE [raised |-> FALSE, tuples |-> list(store, t, ks, limit)]

RECURSIVE Orders(_)
\* the orders in which KEYS may return a set of keys
Orders(S) ==
    IF S = {} THEN {<<>>}
    ELSE UNION {{<<k>> \o o : o \in Orders(S \ {k})} : k \in S}

RECURSIVE SomeOrder(_)
SomeOrder(S) ==
    IF S = {} THEN <<>>
    ELSE LET k == CHOOSE x \in S : TRUE IN <<k>> \o SomeOrder(S \ {k})

\* list, line 150: the orders in which KEYS may return the matching keys.  The
\* alias keys stand first: the loop passes over them wherever they stand.
KeyOrders(store, t, thread_id, checkpoint_ns) ==
    LET ks == keys(store, t, pattern(thread_id, checkpoint_ns))
        aliases == {k \in ks : endswith(k, <<":", "latest">>)}
    IN  {SomeOrder(aliases) \o o : o \in Orders(ks \ aliases)}

\* the server clock advances and expired keys are reclaimed; with no key in
\* the keyspace the passing of time changes nothing and is not counted
Tick ==
    /\ now < MaxTime
    /\ DOMAIN redis # {}
    /\ now' = now + 1
    /\ redis' = Reclaim(redis, now + 1)
    /\ last_write' = [kind |-> "tick"]
    /\ ret' = [op |-> "tick"]
    /\ UNCHANGED <<inflight, written, nputs, put_time>>

\* a plausible slip: the pickling error caught, an empty record stored in
\* place of the checkpoint, and config returned
PutUnpicklableCoerced(c, thread_id, checkpoint_ns, checkpoint, metadata) ==
    /\ ~inflight[c].busy
    /\ nputs < MaxPuts
    /\ nputs' = nputs + 1
    /\ redis' = setex(setex(redis, now,
                            _make_key(thread_id, checkpoint_ns, checkpoint.id), ttl, <<>>),
                      now, latest_key(thread_id, checkpoint_ns), ttl, <<>>)
    /\ last_write' = [kind |-> "unpicklable", thread_id |-> thread_id,
                      checkpoint_ns |-> checkpoint_ns, checkpoint |-> checkpoint]
    /\ ret' = [op |-> "put", client |-> c,
               config |-> Config(thread_id, checkpoint_ns, None)]
    /\ UNCHANGED <<now, inflight, written, put_time>>

\* put, line 91: pickle.dumps raises; put ends there, before line 95
PutUnpicklable(c, thread_id, checkpoint_ns, checkpoint, metadata) ==
    /\ ~inflight[c].busy
    /\ nputs < MaxPuts
    /\ ~picklable([checkpoint |-> checkpoint, metadata |-> metadata,
                   config |-> Config(thread_id, checkpoint_ns, checkpoint.id)])
    /\ nputs' = nputs + 1
    /\ last_write' = [kind |-> "unpicklable", thread_id |-> thread_id,
                      checkpoint_ns |-> checkpoint_ns, checkpoint |-> checkpoint]
    /\ ret' = [op |-> "raised", client |-> c, error |-> "PicklingError"]
    /\ UNCHANGED <<redis, now, inflight, written, put_time>>

\* put, line 95: the first SETEX raises (the server is unreachable); put ends
\* there with nothing written
PutSpecificFails(c, thread_id, checkpoint_ns, checkpoint, metadata) ==
    /\ ~inflight[c].busy
    /\ nputs < MaxPuts
    /\ picklable([checkpoint |-> checkpoint, metadata |-> metadata,
                  config |-> Config(thread_id, checkpoint_ns, checkpoint.id)])
    /\ nputs' = nputs + 1
    /\ last_write' = [kind |-> "failed", thread_id |-> thread_id,
                      checkpoint_ns |-> checkpoint_ns, checkpoint |-> checkpoint]
    /\ ret' = [op |-> "raised", client |-> c, error |-> "ConnectionError"]
    /\ UNCHANGED <<redis, now, inflight, written, put_time>>

\* a plausible slip: the error of the second SETEX caught and dropped, and
\* config returned as after a full write
PutLatestFailsSwallowed(c) ==
    LET p == inflight[c]
    IN  /\ p.busy
        /\ inflight' = [inflight EXCEPT ![c] = Idle]
        /\ last_write' = [kind |-> "failed", thread_id |-> p.thread_id,
                          checkpoint_ns |-> p.checkpoint_ns, checkpoint |-> p.checkpoint]
        /\ ret' = [op |-> "put", client |-> c,
                   config |-> Config(p.thread_id, p.checkpoint_ns, None)]
        /\ UNCHANGED <<redis, now, written, nputs, put_time>>

\* put, line 99: the second SETEX raises; put ends there, the specific-id key
\* written and the alias not
PutLatestFails(c) ==
    LET p == inflight[c]
    IN  /\ p.busy
        /\ inflight' = [inflight EXCEPT ![c] = Idle]
        /\ last_write' = [kind |-> "failed", thread_id |-> p.thread_id,
                          checkpoint_ns |-> p.checkpoint_ns, checkpoint |-> p.checkpoint]
        /\ ret' = [op |-> "raised", client |-> c, error |-> "ConnectionError"]
        /\ UNCHANGED <<redis, now, written, nputs, put_time>>

\* the value of a key is damaged outside the saver
Corrupt(k) ==
    /\ Live(redis, now, k)
    /\ redis[k].val # Garbage
    /\ redis' = [redis EXCEPT ![k] = [val |-> Garbage, exp |-> redis[k].exp]]
    /\ last_write' = [kind |-> "corrupt"]
    /\ ret' = [op |-> "corrupt"]
    /\ UNCHANGED <<now, inflight, written, nputs, put_time>>

StoreInit ==
    /\ redis = <<>>
    /\ now = 0
    /\ inflight = [c \in Clients |-> Idle]
    /\ last_write = [kind |-> "none"]
    /\ ret = [op |-> "none"]
    /\ written = {}
    /\ nputs = 0
    /\ put_time = <<>>

LoopIdle ==
    /\ conversation_history = <<>>
    /\ turn_count = 0
    /\ pc = "off"
    /\ completion_status = "in_progress"
    /\ user_input = <<>>
    /\ response = [message |-> "none", reasoning |-> "none", is_complete |-> FALSE]
    /\ decision = "none"
    /\ profile_calls = <<>>
    /\ sent = {}
    /\ event = "none"
    /\ nfail = 0

Init == StoreInit /\ LoopIdle

---------------------------------------------------------------------------
(* src/tools/profile_tools.py: ConversationAnalyzerTool *)

\* str.lower()
lower(s) ==
    [i \in 1..Len(s) |->
        CASE s[i] = "QUIT" -> "quit"
          [] s[i] = "Exit" -> "exit"
          [] s[i] = "Q" -> "q"
          [] s[i] = "P" -> "p"
          [] OTHER -> s[i]]

\* the thresholds of the readiness test, line 102: user turns, and the
\* coverage score in hundredths
ReadyTurns == 8
ReadyCoverage == 75

\* the keyword lists of lines 87-98, a text being the sequence of its
\* characters
TasteAnchors == {<<"b", "o", "o", "k">>, <<"a", "u", "t", "h", "o", "r">>,
                 <<"s", "t", "o", "r", "y">>, <<"n", "o", "v", "e", "l">>}
StylePreference == {<<"p", "r", "o", "s", "e">>, <<"w", "r", "i", "t", "i", "n", "g">>,
                    <<"s", "t", "y", "l", "e">>, <<"v", "o", "i", "c", "e">>}
NarrativeDesire == {<<"w", "i", "s", "h">>, <<"w", "a", "n", "t">>,
                    <<"s", "t", "o", "r", "y">>, <<"p", "l", "o", "t">>}
ConsumptionHabit == {<<"r", "e", "a", "d">>, <<"t", "i", "m", "e">>,
                     <<"d", "a", "i", "l", "y">>, <<"p", "a", "g", "e", "s">>}

\* the keys of the coverage dict, lines 86-99
Dimensions == {"taste_anchors", "style_preference", "narrative_desire",
               "consumption_habit"}

Keywords(dimension) ==
    CASE dimension = "taste_anchors" -> TasteAnchors
      [] dimension = "style_preference" -> StylePreference
      [] dimension = "narrative_desire" -> NarrativeDesire
      [] dimension = "consumption_habit" -> ConsumptionHabit

\* line 122, "keyword in full_text": the keyword is a run of consecutive
\* characters of the text
contains(text, keyword) ==
    \E i \in 0..(Len(text) - Len(keyword)) :
        SubSeq(text, i + 1, i + Len(keyword)) = keyword

\* lines 116-120: the lowercased contents of the user's messages, in order;
\* a message without content counts as the empty text
RECURSIVE user_messages(_)
user_messages(conversation) ==
    IF conversation = <<>> THEN <<>>
    ELSE LET msg == Head(conversation)
             rest == user_messages(Tail(conversation))
         IN  IF "role" \in DOMAIN msg /\ msg.role = "user"
             THEN <<lower(IF "content" \in DOMAIN msg THEN msg.content ELSE <<>>)>>
                  \o rest
             ELSE rest

\* a plausible slip: the texts joined with nothing between them
RECURSIVE full_text_unseparated(_)
full_text_unseparated(texts) ==
    IF texts = <<>> THEN <<>> ELSE Head(texts) \o full_text_unseparated(Tail(texts))

\* line 121: " ".join(user_messages)
RECURSIVE full_text(_)
full_text(texts) ==
    IF texts = <<>> THEN <<>>
    ELSE IF Len(texts) = 1 THEN Head(texts)
    ELSE Head(texts) \o <<" ">> \o full_text(Tail(texts))

\* a plausible slip: only the user's last message is searched
_check_mentions_last(conversation, keywords) ==
    LET texts == user_messages(conversation)
    IN  /\ texts # <<>>
        /\ \E keyword \in keywords : contains(texts[Len(texts)], keyword)

\* lines 112-122
_check_mentions(conversation, keywords) ==
    LET text == full_text(user_messages(conversation))
    IN  \E keyword \in keywords : contains(text, keyword)

WrapUp == "Consider wrapping up and summarizing profile"
KeepProbing == "Continue probing for missing dimensions"

\* the result dict of lines 104-110; coverage_score in hundredths
Analysis(turns, coverage, ready) ==
    LET covered == Cardinality({d \in DOMAIN coverage : coverage[d]})
    IN  [turn_count |-> turns,
         coverage |-> coverage,
         coverage_score |-> (covered * 100) \div Cardinality(DOMAIN coverage),
         ready_for_summary |-> ready,
         recommendation |-> IF ready THEN WrapUp ELSE KeepProbing]

\* a plausible slip: the turn threshold taken strictly
_run_strict(history) ==
    IF history = <<>>
    THEN [turn_count |-> 0, coverage |-> <<>>, ready_for_summary |-> FALSE]
    ELSE LET turns == Cardinality({i \in 1..Len(history) :
                         /\ "role" \in DOMAIN history[i]
                         /\ history[i].role = "user"})
             coverage == [d \in Dimensions |->
                             _check_mentions(history, Keywords(d))]
             covered == Cardinality({d \in Dimensions : coverage[d]})
         IN  Analysis(turns, coverage,
                      turns > ReadyTurns
                      /\ covered * 100 >= ReadyCoverage * Cardinality(Dimensions))

\* lines 74-110
_run(history) ==
    IF history = <<>>
    THEN [turn_count |-> 0, coverage |-> <<>>, ready_for_summary |-> FALSE]
    ELSE LET turns == Cardinality({i \in 1..Len(history) :
                         /\ "role" \in DOMAIN history[i]
                         /\ history[i].role = "user"})
             coverage == [d \in Dimensions |->
                             _check_mentions(history, Keywords(d))]
             covered == Cardinality({d \in Dimensions : coverage[d]})
         IN  Analysis(turns, coverage,
                      turns >= ReadyTurns
                      /\ covered * 100 >= ReadyCoverage * Cardinality(Dimensions))

---------------------------------------------------------------------------
(* cli_interview.py: main() *)

\* the turn ceiling of the completion test, line 219
MaxTurns == 12

\* session_id, line 82: "cli_" and the start time
session_id == <<"cli_20260101_120000">>

\* what input() may return: blanks, text, and spellings of the quit words.
\* The length check of lines 108-113 only shortens a text of more than 2000
\* characters; the texts here are short, and the second input() it makes is
\* inside the same try as the first.
RawInputs == {<<>>, <<" ">>, <<"a">>, <<" ", "a", " ">>, <<"quit">>, <<" ", "Exit">>,
              <<"Q", " ">>}

\* input() returning a text with keywords of three of the analyzer's dimensions
KeywordedInputs == {<<"s", "t", "o", "r", "y", " ", "P", "r", "o", "s", "e">>}

\* such a text is entered in the first KeywordedBy turns of a session only
KeywordedBy == 1

\* the agent's replies: the message, and the reasoning the extractor finds;
\* at most MaxReasoned replies of a session carry the second form
Replies == {[message |-> "r1", reasoning |-> "none"],
            [message |-> "r2", reasoning |-> "because"]}

RECURSIVE lstrip(_)
lstrip(s) == IF s # <<>> /\ Head(s) = " " THEN lstrip(Tail(s)) ELSE s

RECURSIVE rstrip(_)
rstrip(s) == IF s # <<>> /\ s[Len(s)] = " " THEN rstrip(SubSeq(s, 1, Len(s) - 1)) ELSE s

\* str.strip()
strip(s) == rstrip(lstrip(s))

\* a plausible slip: the comparison without lower()
IsQuitCaseSensitive(input) == input \in {<<"quit">>, <<"exit">>, <<"q">>}

\* line 145: the quit command
IsQuit(input) == lower(input) \in {<<"quit">>, <<"exit">>, <<"q">>}

\* a plausible slip: the counter taken from the two entries a turn appends
CountEntries(n) == n + 2

\* line 207
CountTurn(n) == n + 1

\* plausible slips in the completion test: the ceiling one late, one early,
\* and a test that reads the reply's text
IsCompleteLate(reply, n) == reply.is_complete \/ n > MaxTurns
IsCompleteEarly(reply, n) == reply.is_complete \/ n >= MaxTurns - 1
IsCompleteByMessage(reply, n) ==
    reply.is_complete \/ reply.message = "r2" \/ n >= MaxTurns

\* a plausible slip: the analyzer's readiness for the history so far ends the
\* interview
IsCompleteWhenReady(reply, n) ==
    reply.is_complete \/ n >= MaxTurns \/ _run(conversation_history).ready_for_summary

\* line 219: the completion test
IsComplete(reply, n) == reply.is_complete \/ n >= MaxTurns

\* the metadata and history handed to profile_generator.generate_profile
ProfileCall(history, n, status, early) ==
    [conversation |-> history, turn_count |-> n, completion_status |-> status,
     early_termination |-> early]

\* a plausible slip: the metadata of the quit branch copied unchanged
InterruptedProfileCopied(history, n) == ProfileCall(history, n, "early_exit", TRUE)

\* lines 119-126: the profile call of the interrupt handler
InterruptedProfile(history, n) == ProfileCall(history, n, "interrupted", TRUE)

\* a plausible slip: the reply tracked before the user's text
TrackReplyFirst(history, input, reply) ==
    history \o
    <<[role |-> "assistant", content |-> reply.message],
      [role |-> "user", content |-> input]>>

\* lines 202-206: the two entries a processed turn appends
Track(history, input, reply) ==
    history \o
    <<[role |-> "user", content |-> input],
      IF reply.reasoning # "none"
      THEN [role |-> "assistant", content |-> reply.message,
            reasoning_content |-> reply.reasoning]
      ELSE [role |-> "assistant", content |-> reply.message]>>

\* the number of tracked replies that carry reasoning
Reasoned(history) ==
    Cardinality({i \in 1..Len(history) : "reasoning_content" \in DOMAIN history[i]})

\* the checkpoint the agent writes for turn n
TurnCheckpoint(n) == Checkpoint(<<"turn", ToString(n)>>, n)

\* put as one call: both SETEX in turn
put(store, t, thread_id, checkpoint_ns, checkpoint, metadata) ==
    LET serialized == PutRecord(thread_id, checkpoint_ns, checkpoint, metadata)
        key == _make_key(thread_id, checkpoint_ns, checkpoint.id)
    IN  setex(setex(store, t, key, ttl, serialized), t,
              latest_key(thread_id, checkpoint_ns), ttl, serialized)

\* lines 86-97: start_interview succeeded, the loop is entered
Start ==
    /\ pc = "off"
    /\ pc' = "input"
    /\ event' = "start"
    /\ UNCHANGED <<conversation_history, turn_count, completion_status, user_input,
                   response, decision, profile_calls, sent, nfail>>
    /\ UNCHANGED storeVars

\* lines 104-138: KeyboardInterrupt or EOFError while input() waits
Interrupt ==
    /\ pc = "input"
    /\ profile_calls' = Append(profile_calls,
          InterruptedProfile(conversation_history, turn_count))
    /\ completion_status' = "interrupted"
    /\ pc' = "exited"
    /\ event' = "interrupt"
    /\ UNCHANGED <<conversation_history, turn_count, user_input, response, decision,
                   sent, nfail>>
    /\ UNCHANGED storeVars

\* lines 105, 140-142: the input is blank
EmptyInput(raw) ==
    /\ pc = "input"
    /\ strip(raw) = <<>>
    /\ user_input' = strip(raw)
    /\ event' = "empty"
    /\ UNCHANGED <<conversation_history, turn_count, pc, completion_status, response,
                   decision, profile_calls, sent, nfail>>
    /\ UNCHANGED storeVars

\* lines 144-188: the quit command
Quit(raw) ==
    /\ pc = "input"
    /\ strip(raw) # <<>>
    /\ IsQuit(strip(raw))
    /\ user_input' = strip(raw)
    /\ profile_calls' = Append(profile_calls,
          ProfileCall(conversation_history, turn_count, "early_exit", TRUE))
    /\ completion_status' = "early_exit"
    /\ pc' = "done"
    /\ event' = "quit"
    /\ UNCHANGED <<conversation_history, turn_count, response, decision, sent, nfail>>
    /\ UNCHANGED storeVars

\* lines 190-193: the input goes to agent.send_message
Send(raw) ==
    /\ pc = "input"
    /\ strip(raw) # <<>>
    /\ ~IsQuit(strip(raw))
    /\ user_input' = strip(raw)
    /\ sent' = sent \cup {strip(raw)}
    /\ pc' = "agent"
    /\ event' = "send"
    /\ UNCHANGED <<conversation_history, turn_count, completion_status, response,
                   decision, profile_calls, nfail>>
    /\ UNCHANGED storeVars

\* the agent's checkpoint write for the turn it processed
AgentPut ==
    /\ redis' = put(redis, now, session_id, <<>>, TurnCheckpoint(turn_count + 1),
                    Metadata(turn_count + 1))
    /\ written' = written \cup
          {_make_key(session_id, <<>>, TurnCheckpoint(turn_count + 1).id)}
    /\ put_time' = Stamp(put_time,
          <<session_id, <<>>, TurnCheckpoint(turn_count + 1).id>>, now)
    /\ UNCHANGED <<now, inflight, last_write, ret, nputs>>

\* lines 193-270: send_message returned; the turn is tracked, counted and tested
\* for completion.  saved = FALSE: the completion block raised after the profile
\* was generated (lines 263-268) and line 272 sent the loop on.
Turn(reply, is_complete, saved) ==
    LET r == [message |-> reply.message, reasoning |-> reply.reasoning,
              is_complete |-> is_complete]
        history == Track(conversation_history, user_input, r)
        n == CountTurn(turn_count)
    IN  /\ pc = "agent"
        /\ reply.reasoning = "none" \/ Reasoned(conversation_history) < MaxReasoned
        /\ AgentPut
        /\ response' = r
        /\ conversation_history' = history
        /\ turn_count' = n
        /\ IF IsComplete(r, n)
           THEN /\ decision' = "complete"
                /\ profile_calls' = Append(profile_calls,
                      ProfileCall(history, n, "complete", FALSE))
                /\ completion_status' = "complete"
                /\ IF saved
                   THEN pc' = "done" /\ event' = "turn" /\ nfail' = nfail
                   ELSE /\ nfail < MaxSaveFailures
                        /\ pc' = "input"
                        /\ event' = "turn_unsaved"
                        /\ nfail' = nfail + 1
           ELSE /\ saved
                /\ decision' = "continue"
                /\ pc' = "input"
                /\ event' = "turn"
                /\ UNCHANGED <<profile_calls, completion_status, nfail>>
        /\ UNCHANGED <<user_input, sent>>

\* a plausible slip: the user's entry tracked before the agent is called, so
\* that it stays in the history when send_message raises
TurnFailedTracked(partial) ==
    /\ pc = "agent"
    /\ pc' = "input"
    /\ event' = "turn_failed"
    /\ conversation_history' =
          Append(conversation_history, [role |-> "user", content |-> user_input])
    /\ UNCHANGED storeVars
    /\ UNCHANGED <<turn_count, completion_status, user_input, response, decision,
                   profile_calls, sent, nfail>>

\* lines 193, 272-275: send_message raised.  partial: the agent's put had
\* written the specific-id key when its second SETEX failed.
TurnFailed(partial) ==
    /\ pc = "agent"
    /\ pc' = "input"
    /\ event' = "turn_failed"
    /\ IF partial
       THEN /\ redis' = setex(redis, now,
                   _make_key(session_id, <<>>, TurnCheckpoint(turn_count + 1).id), ttl,
                   PutRecord(session_id, <<>>, TurnCheckpoint(turn_count + 1),
                             Metadata(turn_count + 1)))
            /\ written' = written \cup
                   {_make_key(session_id, <<>>, TurnCheckpoint(turn_count + 1).id)}
            /\ put_time' = Stamp(put_time,
                   <<session_id, <<>>, TurnCheckpoint(turn_count + 1).id>>, now)
       ELSE UNCHANGED <<redis, written, put_time>>
    /\ UNCHANGED <<now, inflight, last_write, ret, nputs>>
    /\ UNCHANGED <<conversation_history, turn_count, completion_status, user_input,
                   response, decision, profile_calls, sent, nfail>>

\* line 193: KeyboardInterrupt inside send_message; "except Exception" does not
\* catch it and main() ends with the traceback
AgentInterrupt ==
    /\ pc = "agent"
    /\ pc' = "crashed"
    /\ event' = "agent_interrupt"
    /\ UNCHANGED <<conversation_history, turn_count, completion_status, user_input,
                   response, decision, profile_calls, sent, nfail>>
    /\ UNCHANGED storeVars

LoopNext ==
    \/ Start
    \/ Interrupt
    \/ \E raw \in RawInputs : EmptyInput(raw)
    \/ \E raw \in RawInputs : Quit(raw)
    \/ \E raw \in RawInputs : Send(raw)
    \/ \E reply \in Replies, is_complete \in BOOLEAN, saved \in BOOLEAN :
          Turn(reply, is_complete, saved)
    \/ \E partial \in BOOLEAN : TurnFailed(partial)
    \/ AgentInterrupt

SpecLoop == Init /\ [][LoopNext]_vars

\* the user supplies a text that is not empty: a message or the quit command
Supplied == \E raw \in RawInputs : Send(raw) \/ Quit(raw)

\* the agent answers the message it was sent, with a reply without reasoning
Answered ==
    \E reply \in {r \in Replies : r.reasoning = "none"},
       is_complete \in BOOLEAN, saved \in BOOLEAN :
        Turn(reply, is_complete, saved)

LiveNext ==
    \/ Start
    \/ Interrupt
    \/ \E raw \in RawInputs : EmptyInput(raw)
    \/ Supplied
    \/ Answered
    \/ \E partial \in BOOLEAN : TurnFailed(partial)
    \/ AgentInterrupt

\* the loop of a user who keeps supplying input that is not empty, with an
\* agent whose calls do not fail forever: the program enters the loop, a
\* prompt is answered by a text, and a message that is sent again and again
\* is answered at last
SpecLive ==
    /\ Init /\ [][LiveNext]_vars
    /\ WF_vars(Start)
    /\ WF_vars(Supplied)
    /\ SF_vars(Answered)

\* the loop with texts that hold the analyzer's keywords among its inputs, and
\* replies without reasoning
AdvisedNext ==
    \/ Start
    \/ Interrupt
    \/ \E raw \in RawInputs : EmptyInput(raw)
    \/ \E raw \in RawInputs : Quit(raw)
    \/ \E raw \in RawInputs : Send(raw)
    \/ \E raw \in KeywordedInputs : turn_count < KeywordedBy /\ Send(raw)
    \/ \E reply \in {r \in Replies : r.reasoning = "none"},
          is_complete \in BOOLEAN, saved \in BOOLEAN :
          Turn(reply, is_complete, saved)
    \/ \E partial \in BOOLEAN : TurnFailed(partial)
    \/ AgentInterrupt

SpecAdvised == Init /\ [][AdvisedNext]_vars

\* the callers are interchangeable: a put is started by the first caller, and
\* by another one only while a put of the first is in flight
Starts(c) == c = 1 \/ inflight[1].busy

Next ==
    \/ \E c \in Clients, a \in Addresses, id \in CheckpointIds :
          /\ Starts(c)
          /\ PutSpecific(c, a[1], a[2], Checkpoint(id, nputs + 1), Metadata(nputs + 1))
          /\ UNCHANGED loopVars
    \/ \E c \in Clients : PutLatest(c) /\ UNCHANGED loopVars
    \/ Tick /\ UNCHANGED loopVars

Spec == Init /\ [][Next]_vars

\* the store with its failures: puts to one session that may fail at
\* pickle.dumps or at either SETEX, and records that get damaged
FaultAddresses == {<<<<"s">>, <<>>>>}
NextFault ==
    \/ \E c \in Clients, a \in FaultAddresses, id \in CheckpointIds :
          /\ Starts(c)
          /\ PutSpecific(c, a[1], a[2], Checkpoint(id, nputs + 1), Metadata(nputs + 1))
          /\ UNCHANGED loopVars
    \/ \E c \in Clients : PutLatest(c) /\ UNCHANGED loopVars
    \/ \E c \in Clients, a \in FaultAddresses, id \in CheckpointIds :
          /\ Starts(c)
          /\ PutUnpicklable(c, a[1], a[2], Unpicklable(id, nputs + 1),
                            Metadata(nputs + 1))
          /\ UNCHANGED loopVars
    \/ \E c \in Clients, a \in FaultAddresses, id \in CheckpointIds :
          /\ Starts(c)
          /\ PutSpecificFails(c, a[1], a[2], Checkpoint(id, nputs + 1),
                              Metadata(nputs + 1))
          /\ UNCHANGED loopVars
    \/ \E c \in Clients : PutLatestFails(c) /\ UNCHANGED loopVars
    \/ \E k \in DOMAIN redis : Corrupt(k) /\ UNCHANGED loopVars
    \/ Tick /\ UNCHANGED loopVars

SpecFault == Init /\ [][NextFault]_vars

---------------------------------------------------------------------------
(* ConversationAnalyzerTool called with growing histories *)

\* the histories the tool is called with hold one message more than the
\* readiness test asks turns for, of which at most MaxKeyworded are other than
\* the filler turn
MaxHistory == ReadyTurns + 1
MaxKeyworded == 3

\* a turn of the user that holds no keyword, but the second half of one
Filler == [role |-> "user", content |-> <<"o", "k">>]

\* the messages a history is built from: a user turn with a keyword of two
\* dimensions, one with a capitalised keyword, one that holds the first half
\* of a keyword, an assistant turn with a keyword, and the filler
Messages ==
    {Filler,
     [role |-> "user", content |-> <<"s", "t", "o", "r", "y">>],
     [role |-> "user", content |-> <<"P", "r", "o", "s", "e">>],
     [role |-> "user", content |-> <<"b", "o">>],
     [role |-> "assistant", content |-> <<"r", "e", "a", "d">>]}

Keyworded(history) == Cardinality({i \in 1..Len(history) : history[i] # Filler})

\* the tool called with the empty history
AnalyzerInit ==
    /\ LoopIdle
    /\ ret = [op |-> "_run", value |-> _run(<<>>)]
    /\ redis = <<>>
    /\ now = 0
    /\ inflight = [c \in Clients |-> Idle]
    /\ last_write = [kind |-> "none"]
    /\ written = {}
    /\ nputs = 0
    /\ put_time = <<>>

\* the tool called with the history grown by one message
Analyze(msg) ==
    /\ Len(conversation_history) < MaxHistory
    /\ msg = Filler \/ Keyworded(conversation_history) < MaxKeyworded
    /\ conversation_history' = Append(conversation_history, msg)
    /\ ret' = [op |-> "_run", value |-> _run(conversation_history')]
    /\ UNCHANGED <<redis, now, inflight, last_write, written, nputs, put_time>>
    /\ UNCHANGED <<turn_count, pc, completion_status, user_input, response, decision,
                   profile_calls, sent, event, nfail>>

AnalyzerNext == \E msg \in Messages : Analyze(msg)

SpecAnalyzer == AnalyzerInit /\ [][AnalyzerNext]_vars

---------------------------------------------------------------------------
(* The checkpoint store: properties *)

\* C1: round-trip fidelity.  Right after a put has returned (no write and no
\* clock step since), get_tuple with no checkpoint_id for the same session
\* and namespace finds a tuple whose checkpoint and metadata are those put.
RoundTrip ==
    last_write.kind = "put" =>
        LET out == get_tuple(redis, now,
                     Config(last_write.thread_id, last_write.checkpoint_ns, None))
        IN  /\ out.found
            /\ out.checkpoint = last_write.checkpoint
            /\ out.metadata = last_write.metadata

\* a second put has returned and moved the alias of a namespaced session
RoundTripWitness ==
    /\ last_write.kind = "put"
    /\ last_write.checkpoint.v > 1
    /\ last_write.checkpoint_ns # <<>>
    /\ get_tuple(redis, now,
          Config(last_write.thread_id, last_write.checkpoint_ns, None)).found

\* the keys put wrote under a specific id that exist and match the pattern
SpecificKeys(thread_id, checkpoint_ns) ==
    {k \in written : /\ Live(redis, now, k)
                     /\ glob(pattern(thread_id, checkpoint_ns), k)}

\* the alias keys of the addresses
AliasKeys == {latest_key(a[1], a[2]) : a \in Addresses}

\* C2: list never returns the latest alias as an item.  Every tuple list
\* returns, with any limit and in any order of the keys, was read from a key
\* that put wrote under a specific checkpoint id and that is no alias key, and
\* without a limit list returns as many items as there are such keys: n, not
\* n + 1.
ListSkipsLatest ==
    \A a \in Addresses : \A ks \in KeyOrders(redis, now, a[1], a[2]) :
        /\ \A limit \in Limits \cup {NoLimit} :
              LET out == list(redis, now, ks, limit)
              IN  \A i \in 1..Len(out) :
                      out[i].key \in written /\ out[i].key \notin AliasKeys
        /\ Len(list(redis, now, ks, NoLimit)) = Cardinality(SpecificKeys(a[1], a[2]))

\* two puts with distinct ids to one address have returned: two items are
\* listed while three keys match
ListSkipsLatestWitness ==
    \E a \in Addresses : \E ks \in KeyOrders(redis, now, a[1], a[2]) :
        /\ Len(list(redis, now, ks, NoLimit)) = 2
        /\ Cardinality(keys(redis, now, pattern(a[1], a[2]))) = 3
        /\ \A c \in Clients : ~inflight[c].busy

\* C3: sessions never cross-contaminate.  For every session, list and
\* get_tuple return only checkpoints that were put with that session id.
NoCrossContamination ==
    \A a \in Addresses :
        /\ \A ks \in KeyOrders(redis, now, a[1], a[2]) :
              LET out == list(redis, now, ks, NoLimit)
              IN  \A i \in 1..Len(out) : out[i].config.thread_id = a[1]
        /\ \A id \in CheckpointIds \cup {None} :
              LET out == get_tuple(redis, now, Config(a[1], a[2], id))
              IN  out.found => out.config.thread_id = a[1]

\* the puts made to a session and namespace, and to a session
PutsUnder(thread_id, checkpoint_ns) ==
    {b \in DOMAIN put_time : b[1] = thread_id /\ b[2] = checkpoint_ns}
PutsTo(thread_id) == {b \in DOMAIN put_time : b[1] = thread_id}

\* C11: get_tuple returns not-found for an address under which nothing was
\* ever put: with a checkpoint id, when no put was made under that session,
\* namespace and id; without one, when no put was made under that session and
\* namespace.
GetNeverPutNotFound ==
    \A a \in Addresses :
        /\ \A id \in CheckpointIds :
              <<a[1], a[2], id>> \notin DOMAIN put_time =>
                  ~get_tuple(redis, now, Config(a[1], a[2], id)).found
        /\ PutsUnder(a[1], a[2]) = {} =>
              ~get_tuple(redis, now, Config(a[1], a[2], None)).found

\* C12: TTL expiry.  Once more than ttl time units have passed since the last
\* SETEX of every put to a session, get_tuple finds nothing for that session,
\* by id or by the latest alias, and list returns nothing for it.
ExpiredNotRetrievable ==
    \A a \in Addresses :
        (PutsTo(a[1]) # {} /\ \A b \in PutsTo(a[1]) : now > put_time[b] + ttl) =>
            /\ \A id \in CheckpointIds \cup {None} :
                  ~get_tuple(redis, now, Config(a[1], a[2], id)).found
            /\ \A ks \in KeyOrders(redis, now, a[1], a[2]) :
                  list(redis, now, ks, NoLimit) = <<>>

\* the tuple get_tuple builds from the record of the put in flight p
TupleOf(p) ==
    [found |-> TRUE, config |-> Config(p.thread_id, p.checkpoint_ns, p.checkpoint.id),
     checkpoint |-> p.checkpoint, metadata |-> p.metadata,
     parent_config |-> Config(p.thread_id, p.checkpoint_ns, p.checkpoint.id),
     key |-> latest_key(p.thread_id, p.checkpoint_ns)]

\* C13: a get_tuple on the latest alias concurrent with puts sees the previous
\* record or the new one in full.  Over every step, of either caller and at
\* either SETEX of a put, what get_tuple returns for the alias of an address
\* stays what it was, or becomes the whole record of one put in flight to
\* that alias: its checkpoint, its metadata and its config together (or the
\* alias expires).
LatestIsOldOrNew ==
    [][\A a \in Addresses :
          LET old == get_tuple(redis, now, Config(a[1], a[2], None))
              new == get_tuple(redis', now', Config(a[1], a[2], None))
          IN  \/ new = old
              \/ ~new.found
              \/ \E c \in Clients : inflight[c].busy /\ new = TupleOf(inflight[c])]_vars

\* a put stands between its two SETEX calls while the alias it will move
\* holds the whole record of another put
LatestIsOldOrNewWitness ==
    \E c \in Clients :
        /\ inflight[c].busy
        /\ LET out == get_tuple(redis, now,
                         Config(inflight[c].thread_id, inflight[c].checkpoint_ns, None))
           IN  /\ out.found
               /\ out.checkpoint # inflight[c].checkpoint
               /\ out.metadata = Metadata(out.checkpoint.v)

\* the key holds the value, to expire at the time
Holds(store, k, value, exp) ==
    k \in DOMAIN store /\ store[k] = [val |-> value, exp |-> exp]

\* C14 as stated: put returns normally only when both keys hold the new
\* record: right after a put has returned, its specific-id key and its alias
\* key exist and hold the record of that put.
PutReturnsWithBothKeys ==
    last_write.kind = "put" =>
        LET record == PutRecord(last_write.thread_id, last_write.checkpoint_ns,
                                last_write.checkpoint, last_write.metadata)
            key == _make_key(last_write.thread_id, last_write.checkpoint_ns,
                             last_write.checkpoint.id)
            alias == latest_key(last_write.thread_id, last_write.checkpoint_ns)
        IN  /\ Live(redis, now, key) /\ redis[key].val = record
            /\ Live(redis, now, alias) /\ redis[alias].val = record

\* C14 as amended: put returns normally only after both of its SETEX calls
\* were carried out with the new record and the configured TTL, and a failed
\* SETEX ends the put with the error raised to the caller.  Over every step:
\* a put that starts its second call has written its specific-id key with
\* the record and the TTL; a put that returns was between its two calls and
\* leaves the alias with the record and the full TTL; a step in which a SETEX
\* fails ends that put with an error and writes no key.
PutReturnsAfterBothWrites ==
    [][\A c \in Clients :
          /\ (~inflight[c].busy /\ inflight'[c].busy) =>
                Holds(redis', inflight'[c].key, inflight'[c].serialized, now + ttl)
          /\ (ret'.op = "put" /\ ret'.client = c) =>
                /\ inflight[c].busy
                /\ ~inflight'[c].busy
                /\ Holds(redis',
                         latest_key(inflight[c].thread_id, inflight[c].checkpoint_ns),
                         inflight[c].serialized, now + ttl)
          /\ (last_write'.kind = "failed" /\ ret'.client = c) =>
                /\ ret'.op = "raised"
                /\ ~inflight'[c].busy
                /\ redis' = redis]_vars

\* a put was ended by the failure of its second SETEX: the error is raised,
\* its specific-id key holds its record, and the alias still holds the record
\* of another put
PutReturnsAfterBothWritesWitness ==
    /\ last_write.kind = "failed"
    /\ ret.op = "raised"
    /\ LET key == _make_key(last_write.thread_id, last_write.checkpoint_ns,
                            last_write.checkpoint.id)
           alias == latest_key(last_write.thread_id, last_write.checkpoint_ns)
       IN  /\ Live(redis, now, key) /\ loadable(redis[key].val)
           /\ loads(redis[key].val).checkpoint = last_write.checkpoint
           /\ Live(redis, now, alias) /\ loadable(redis[alias].val)
           /\ loads(redis[alias].val).checkpoint # last_write.checkpoint

\* C15: put returns the address written.  The configuration a put returns
\* names the session, the checkpoint namespace and the checkpoint id under
\* which the record was stored.
PutReturnsAddress ==
    (last_write.kind = "put" /\ ret.op = "put") =>
        ret.config = Config(last_write.thread_id, last_write.checkpoint_ns,
                            last_write.checkpoint.id)

\* C16: a stored checkpoint is immutable.  No step changes the checkpoint or
\* the metadata that get_tuple reads back under a specific checkpoint id of a
\* session and namespace, as long as the record exists.
StoredIsImmutable ==
    [][\A a \in Addresses : \A id \in CheckpointIds :
          LET old == get_tuple(redis, now, Config(a[1], a[2], id))
              new == get_tuple(redis', now', Config(a[1], a[2], id))
          IN  (old.found /\ new.found) =>
                  (new.checkpoint = old.checkpoint /\ new.metadata = old.metadata)]_vars

\* the puts under a session and namespace whose record exists under its
\* specific id
StoredUnder(thread_id, checkpoint_ns) ==
    {b \in PutsUnder(thread_id, checkpoint_ns) :
        LET out == get_tuple(redis, now, Config(b[1], b[2], b[3]))
        IN  out.found /\ out.config = Config(b[1], b[2], b[3])}

\* C17: list without a limit returns exactly the unexpired checkpoints put
\* under specific ids for the given session and checkpoint namespace: the
\* addresses of the tuples it returns, in any order of the keys, are those of
\* the stored puts of that session and namespace, no more and no fewer.
ListExactSet ==
    \A a \in Addresses : \A ks \in KeyOrders(redis, now, a[1], a[2]) :
        LET out == list(redis, now, ks, NoLimit)
        IN  {<<out[i].config.thread_id, out[i].config.checkpoint_ns,
               out[i].config.checkpoint_id>> : i \in 1..Len(out)}
                = StoredUnder(a[1], a[2])

\* C18: list truncates to the limit whenever one is given: for a limit n >= 0
\* it returns min(n, number of matching checkpoints) items, each of them one
\* of the matching checkpoints.
ListTruncates ==
    \A a \in Addresses : \A ks \in KeyOrders(redis, now, a[1], a[2]) :
        \A limit \in Limits :
            LET all == list(redis, now, ks, NoLimit)
                out == list(redis, now, ks, limit)
            IN  /\ Len(out) = IF limit < Len(all) THEN limit ELSE Len(all)
                /\ \A i \in 1..Len(out) : \E j \in 1..Len(all) : out[i] = all[j]

\* the keys among ks that list reads and that hold a valid record
ValidKeys(ks) ==
    {k \in {ks[i] : i \in 1..Len(ks)} :
        ~endswith(k, <<":", "latest">>) /\ loadable(redis[k].val)}

\* C19: a record that cannot be deserialized does not abort list.  When the
\* keys of a session hold a corrupt record and valid records, list raises
\* nothing and returns a tuple for every key that holds a valid record.
ListSurvivesCorrupt ==
    \A a \in FaultAddresses : \A ks \in KeyOrders(redis, now, a[1], a[2]) :
        (list_raises(redis, now, ks) /\ ValidKeys(ks) # {}) =>
            LET out == list_call(redis, now, ks, NoLimit)
            IN  /\ ~out.raised
                /\ \A k \in ValidKeys(ks) :
                      \E j \in 1..Len(out.tuples) : out.tuples[j].key = k

\* C20: a serialization failure in put is raised and writes nothing.  A step
\* that is a put of a checkpoint pickle.dumps cannot encode ends with the
\* error raised to the caller, leaves every key with the value and expiry it
\* had, and leaves no write pending.
UnpicklableRaises ==
    [][last_write'.kind = "unpicklable" =>
          /\ ret'.op = "raised"
          /\ redis' = redis
          /\ inflight' = inflight]_vars

\* a put of an unpicklable checkpoint was raised while the specific-id key of
\* its id and the alias of its session hold the record of an earlier put
UnpicklableRaisesWitness ==
    /\ last_write.kind = "unpicklable"
    /\ ret.op = "raised"
    /\ LET key == _make_key(last_write.thread_id, last_write.checkpoint_ns,
                            last_write.checkpoint.id)
           alias == latest_key(last_write.thread_id, last_write.checkpoint_ns)
       IN  /\ Live(redis, now, key) /\ loadable(redis[key].val)
           /\ loads(redis[key].val).checkpoint.id = last_write.checkpoint.id
           /\ Live(redis, now, alias) /\ redis[alias].val = redis[key].val

\* C21: the TTL is renewed on each write to the session.  Right after a put
\* to a session has returned, every checkpoint of that session that is still
\* stored under its specific id, and the alias the put moved, expire no
\* earlier than ttl after the time t at which the put made its first write.
TtlRenewedForSession ==
    last_write.kind = "put" =>
        /\ \A b \in PutsTo(last_write.thread_id) :
              LET key == _make_key(b[1], b[2], b[3])
              IN  (Live(redis, now, key) /\ loads(redis[key].val).config.thread_id = b[1])
                      => redis[key].exp >= last_write.started + ttl
        /\ LET alias == latest_key(last_write.thread_id, last_write.checkpoint_ns)
           IN  Live(redis, now, alias) /\ redis[alias].exp >= last_write.started + ttl

\* C21 as amended: a put renews the TTL of the keys it writes.  Right after a
\* put has returned, the alias it moved holds its record and expires ttl from
\* now, and its specific-id key, while it holds that record, expires no
\* earlier than ttl after the put's first write.
TtlRenewedForWrittenKeys ==
    last_write.kind = "put" =>
        LET record == PutRecord(last_write.thread_id, last_write.checkpoint_ns,
                                last_write.checkpoint, last_write.metadata)
            key == _make_key(last_write.thread_id, last_write.checkpoint_ns,
                             last_write.checkpoint.id)
            alias == latest_key(last_write.thread_id, last_write.checkpoint_ns)
        IN  /\ Holds(redis, alias, record, now + ttl)
            /\ (Live(redis, now, key) /\ redis[key].val = record) =>
                  redis[key].exp >= last_write.started + ttl

\* a put has returned at a later time than an earlier put to the same session
\* and namespace: the alias has the renewed expiry, and the checkpoint of the
\* earlier put is still stored with the expiry of its own write
TtlRenewedForWrittenKeysWitness ==
    /\ last_write.kind = "put"
    /\ now > 0
    /\ LET alias == latest_key(last_write.thread_id, last_write.checkpoint_ns)
       IN  /\ redis[alias].exp = now + ttl
           /\ \E b \in PutsUnder(last_write.thread_id, last_write.checkpoint_ns) :
                 LET key == _make_key(b[1], b[2], b[3])
                 IN  /\ b[3] # last_write.checkpoint.id
                     /\ Live(redis, now, key)
                     /\ redis[key].exp < redis[alias].exp

\* the keys of a session: those its puts wrote, specific-id keys and aliases
KeysOf(thread_id) ==
    {_make_key(b[1], b[2], b[3]) : b \in PutsTo(thread_id)} \cup
    {latest_key(b[1], b[2]) : b \in PutsTo(thread_id)}

\* the session a step of put writes for: that of the put that made its first
\* SETEX or its second in the step
Writer(c) == IF inflight[c].busy THEN inflight[c].thread_id ELSE inflight'[c].thread_id

\* C22: puts to distinct sessions are independent.  Neither SETEX of a put
\* changes the value or the expiry of a key of another session, in any
\* interleaving of the callers, so that the order of the writes of two puts to
\* different sessions makes no difference to the store.
PutLeavesOtherSessions ==
    [][\A c \in Clients :
          (ret'.op \in {"setex", "put"} /\ ret'.client = c) =>
              \A th \in ThreadIds \ {Writer(c)} : \A k \in KeysOf(th) :
                  k \in DOMAIN redis => (k \in DOMAIN redis' /\ redis'[k] = redis[k])]_vars

\* the addresses written so far: those of the puts and their latest aliases
WrittenAddresses == DOMAIN put_time \cup {<<a[1], a[2], None>> : a \in DOMAIN put_time}

\* C30: key construction is injective.  Two different addresses (session id,
\* checkpoint namespace, checkpoint id or latest) that were written never have
\* the same storage key.
KeysAreInjective ==
    \A a, b \in WrittenAddresses :
        a # b => _make_key(a[1], a[2], a[3]) # _make_key(b[1], b[2], b[3])

\* C31: the latest alias never dangles.  In every state, the window between
\* the two SETEX of a put and the running out of TTLs included, whenever the
\* alias key of a session and namespace exists, its record is the record under
\* the specific-id key of one of the checkpoints list returns for that session
\* and namespace.
LatestNeverDangles ==
    \A a \in Addresses :
        LET alias == latest_key(a[1], a[2])
        IN  Live(redis, now, alias) =>
                \A ks \in KeyOrders(redis, now, a[1], a[2]) :
                    LET out == list(redis, now, ks, NoLimit)
                    IN  \E i \in 1..Len(out) : redis[out[i].key].val = redis[alias].val

---------------------------------------------------------------------------
(* The interview loop: properties *)

Terminal == {"complete", "early_exit", "interrupted"}

\* the last generate_profile call
LastProfileCall == profile_calls[Len(profile_calls)]

\* C4: the turn ceiling forces completion.  Once turn_count has reached
\* MaxTurns the decision of the last processed turn is complete, whatever the
\* reply said, and the profile was generated for the complete session.
CeilingForcesCompletion ==
    turn_count >= MaxTurns =>
        /\ decision = "complete"
        /\ \E i \in 1..Len(profile_calls) :
              profile_calls[i] =
                  ProfileCall(conversation_history, turn_count, "complete", FALSE)

\* the 12th turn was processed with a reply that did not ask to complete
CeilingForcesCompletionWitness ==
    /\ turn_count = MaxTurns
    /\ ~response.is_complete
    /\ event = "turn"
    /\ pc = "done"
    /\ completion_status = "complete"

\* C5 as stated: the decision of a processed turn depends on turn_count and
\* the ceiling alone, not on the agent's reply.
DecisionIgnoresReply ==
    event \in {"turn", "turn_unsaved"} =>
        decision = IF turn_count >= MaxTurns THEN "complete" ELSE "continue"

\* C5 as amended: the decision of a processed turn is a function of
\* turn_count, the ceiling and the reply's is_complete flag; the reply's
\* message and reasoning have no part in it.
DecisionByCountAndFlag ==
    event \in {"turn", "turn_unsaved"} =>
        decision = IF response.is_complete \/ turn_count >= MaxTurns
                   THEN "complete" ELSE "continue"

\* replies with the other message were processed below the ceiling, one
\* continuing the session
DecisionByCountAndFlagWitness ==
    /\ event = "turn"
    /\ response.message = "r2"
    /\ ~response.is_complete
    /\ turn_count < MaxTurns
    /\ decision = "continue"

\* C6 as stated: complete only with turn_count at the ceiling.
CompleteOnlyAtCeiling == completion_status = "complete" => turn_count = MaxTurns

\* C6 as amended: a session reaches status complete only by a processed turn
\* whose reply had is_complete set or whose turn_count reached the ceiling.
CompleteByFlagOrCeiling ==
    [][(completion_status # "complete" /\ completion_status' = "complete") =>
          (response'.is_complete \/ turn_count' >= MaxTurns)]_vars

\* a session completed below the ceiling, by the reply's flag
CompleteByFlagOrCeilingWitness ==
    /\ completion_status = "complete"
    /\ turn_count < MaxTurns
    /\ response.is_complete
    /\ pc = "done"

\* C7: turn_count never decreases: every step leaves it unchanged or raises
\* it by exactly 1.
TurnCountSteps == [][turn_count' = turn_count \/ turn_count' = turn_count + 1]_vars

\* turns were counted, and a failed turn, blank input, quit or interrupt came
TurnCountStepsWitness ==
    /\ turn_count >= 2
    /\ event \in {"turn_failed", "empty", "quit", "interrupt"}

\* C8: terminality is idempotent.  Once completion_status is terminal no
\* later step changes it or turn_count.
TerminalIsFinal ==
    [][(completion_status \in Terminal) =>
          (completion_status' = completion_status /\ turn_count' = turn_count)]_vars

\* C9: quit after k processed turns ends the session as early_exit with
\* turn_count = k: the quit is not counted, not tracked and not sent to the
\* agent, the profile is generated for k turns, and the checkpoint of turn k
\* is what the latest alias returns.
QuitEndsEarly ==
    event = "quit" =>
        /\ completion_status = "early_exit"
        /\ pc = "done"
        /\ Len(conversation_history) = 2 * turn_count
        /\ LastProfileCall =
              ProfileCall(conversation_history, turn_count, "early_exit", TRUE)
        /\ \A input \in sent : lower(input) \notin {<<"quit">>, <<"exit">>, <<"q">>}
        /\ turn_count >= 1 =>
              LET out == get_tuple(redis, now, Config(session_id, <<>>, None))
              IN  /\ out.found
                  /\ out.checkpoint = TurnCheckpoint(turn_count)
                  /\ out.metadata = Metadata(turn_count)

\* quit after 5 turns, in a spelling that needs strip() and lower()
QuitEndsEarlyWitness ==
    /\ event = "quit"
    /\ turn_count = 5
    /\ user_input = <<"Exit">>
    /\ get_tuple(redis, now, Config(session_id, <<>>, None)).found

\* C10 as stated: an interruption at any point of a session in progress
\* makes it interrupted and has the profile generated.
InterruptAnywhere ==
    event \in {"interrupt", "agent_interrupt"} =>
        /\ completion_status = "interrupted"
        /\ profile_calls # <<>>
        /\ LastProfileCall.completion_status = "interrupted"

\* C10 as amended: an interruption raised while main() waits for input
\* leaves turn_count and the history as the last processed turn left them,
\* makes the session interrupted and ends main() after generate_profile was
\* called with that history, turn_count, completion_status interrupted and
\* early_termination true.
InterruptAtInput ==
    [][event' = "interrupt" =>
          /\ pc = "input"
          /\ turn_count' = turn_count
          /\ conversation_history' = conversation_history
          /\ Len(conversation_history) = 2 * turn_count
          /\ completion_status' = "interrupted"
          /\ pc' = "exited"
          /\ profile_calls' = Append(profile_calls,
                ProfileCall(conversation_history, turn_count, "interrupted", TRUE))]_vars

\* the session was interrupted after turns were processed
InterruptAtInputWitness ==
    /\ event = "interrupt"
    /\ turn_count >= 1
    /\ completion_status = "interrupted"
    /\ LastProfileCall.early_termination

\* C23: a failed turn does not corrupt the in-memory view.  A step in which
\* send_message raises leaves the history and turn_count as they were, two
\* entries per counted turn, leaves completion_status as it was, and takes the
\* loop back to the prompt after the error was reported.
FailedTurnKeepsView ==
    [][event' = "turn_failed" =>
          /\ conversation_history' = conversation_history
          /\ turn_count' = turn_count
          /\ Len(conversation_history') = 2 * turn_count'
          /\ completion_status' = completion_status
          /\ profile_calls' = profile_calls
          /\ pc' = "input"]_vars

\* send_message raised after turns were processed, the session in progress
FailedTurnKeepsViewWitness ==
    /\ event = "turn_failed"
    /\ turn_count >= 2
    /\ Len(conversation_history) = 2 * turn_count
    /\ completion_status = "in_progress"
    /\ pc = "input"

\* C24: the caller obtains the turn's decision even when persistence fails.  A
\* step in which the checkpoint write of a turn fails (the specific-id key
\* written, the alias not) still counts the turn and yields the decision of
\* the completion test for it.
DecisionDespiteStoreFailure ==
    [][(event' = "turn_failed" /\ redis' # redis) =>
          /\ turn_count' = turn_count + 1
          /\ decision' = IF IsComplete(response', turn_count')
                         THEN "complete" ELSE "continue"]_vars

\* C25: the analyzer is advisory only.  What a step of the loop does to
\* turn_count and completion_status is fixed by the kind of the step, the
\* reply's is_complete flag and turn_count; the analyzer's result for the
\* history, ready_for_summary included, has no part in it, so that runs that
\* agree on inputs and on the agent's outcomes pass through the same values
\* whatever the analyzer reports.
AnalyzerIsAdvisory ==
    [][/\ turn_count' = IF event' \in {"turn", "turn_unsaved"}
                        THEN turn_count + 1 ELSE turn_count
       /\ completion_status' =
              CASE event' = "quit" -> "early_exit"
                [] event' = "interrupt" -> "interrupted"
                [] /\ event' \in {"turn", "turn_unsaved"}
                   /\ (response'.is_complete \/ turn_count + 1 >= MaxTurns) -> "complete"
                [] OTHER -> completion_status]_vars

\* a turn was processed whose history the analyzer reports as ready for the
\* summary, and the session went on
AnalyzerIsAdvisoryWitness ==
    /\ event = "turn"
    /\ decision = "continue"
    /\ completion_status = "in_progress"
    /\ pc = "input"
    /\ _run(conversation_history).ready_for_summary
    /\ _run(conversation_history).recommendation = WrapUp

\* C29: the profile generator is invoked once the session is terminal and
\* exactly once per run.  While the status is in_progress no profile has been
\* generated; once it is terminal exactly one has, from the full history, with
\* the session's turn_count, the terminal status, and early_termination true
\* exactly when the status is not complete.
ProfileOncePerRun ==
    /\ completion_status = "in_progress" => profile_calls = <<>>
    /\ completion_status \in Terminal =>
          /\ Len(profile_calls) = 1
          /\ LastProfileCall =
                ProfileCall(conversation_history, turn_count, completion_status,
                            completion_status # "complete")

\* C32: the turn ceiling bounds the loop.  In every state turn_count lies in
\* 0..MaxTurns, and no message is with the agent once turn_count has reached
\* the ceiling.
TurnCountWithinCeiling ==
    /\ turn_count \in 0..MaxTurns
    /\ pc = "agent" => turn_count < MaxTurns

\* the history holds n turns: a user entry followed by an assistant entry,
\* n times
HistoryOfTurns(history, n) ==
    /\ Len(history) = 2 * n
    /\ \A i \in 1..Len(history) :
          history[i].role = IF i % 2 = 1 THEN "user" ELSE "assistant"

\* C33: the in-memory history agrees with the counter.  Before and after
\* every step conversation_history holds exactly turn_count user entries and
\* turn_count assistant entries, alternating user then assistant; an empty
\* input, a failed agent call, quit and interrupt add no entry.
HistoryAgreesWithCount ==
    [][/\ HistoryOfTurns(conversation_history, turn_count)
       /\ HistoryOfTurns(conversation_history', turn_count')
       /\ event' \in {"empty", "turn_failed", "quit", "interrupt"} =>
              conversation_history' = conversation_history]_vars

\* three turns were processed, one with reasoning, and an empty input followed
HistoryAgreesWithCountWitness ==
    /\ event = "empty"
    /\ turn_count = 3
    /\ Len(conversation_history) = 6
    /\ Reasoned(conversation_history) = 1

\* C34 as stated: every session eventually reaches a terminal status.
EventuallyTerminal == <>(completion_status \in Terminal)

\* C34 as amended: the session is in progress only while fewer than MaxTurns
\* turns were processed, and eventually it reaches a terminal status or the
\* program was ended by an interrupt during an agent call.
TerminalOrCrashed ==
    /\ [](completion_status = "in_progress" => turn_count < MaxTurns)
    /\ <>(completion_status \in Terminal \/ pc = "crashed")

\* the session was completed by the ceiling and the loop has ended, with the
\* checkpoint of the last turn stored
TerminalOrCrashedWitness ==
    /\ completion_status = "complete"
    /\ turn_count = MaxTurns
    /\ pc = "done"
    /\ ~response.is_complete
    /\ _make_key(session_id, <<>>, TurnCheckpoint(MaxTurns).id) \in written

---------------------------------------------------------------------------
(* The conversation analyzer: properties *)

\* the number of dimensions a result reports as covered
Covered(result) == Cardinality({d \in DOMAIN result.coverage : result.coverage[d]})

\* the user's turns of a history
UserTurns(history) ==
    {i \in 1..Len(history) : "role" \in DOMAIN history[i] /\ history[i].role = "user"}

\* C26: coverage is monotonically non-decreasing under appending.  Whenever
\* the tool is called with a history grown by one message, of either role, the
\* number of covered dimensions it reports is at least the number it reported
\* for the history before.
CoverageNeverRegresses ==
    [][(ret.op = "_run" /\ ret'.op = "_run"
        /\ \E m \in Messages : conversation_history' = Append(conversation_history, m))
       => Covered(ret'.value) >= Covered(ret.value)]_vars

\* three dimensions were covered, and a message without a keyword of the user
\* and one of the assistant were appended after that
CoverageNeverRegressesWitness ==
    LET n == Len(conversation_history)
    IN  /\ ret.op = "_run"
        /\ n >= 4
        /\ conversation_history[n].role = "assistant"
        /\ conversation_history[n - 1] = Filler
        /\ Covered(_run(SubSeq(conversation_history, 1, n - 2))) = 3
        /\ Covered(ret.value) = 3

\* C27: ready_for_summary is true exactly when the history holds at least 8
\* turns of the user and at least 3 of the 4 dimensions are covered, the empty
\* history included; the recommendation is the wrap-up text exactly when
\* ready_for_summary is true.
ReadyExactlyAtThresholds ==
    ret.op = "_run" =>
        LET r == ret.value
        IN  /\ r.ready_for_summary <=>
                (Cardinality(UserTurns(conversation_history)) >= 8 /\ Covered(r) >= 3)
            /\ r.ready_for_summary <=>
                ("recommendation" \in DOMAIN r /\ r.recommendation = WrapUp)

\* the tool was called with exactly 8 turns of the user and exactly 3 covered
\* dimensions, and reported readiness
ReadyExactlyAtThresholdsWitness ==
    /\ ret.op = "_run"
    /\ Cardinality(UserTurns(conversation_history)) = 8
    /\ Covered(ret.value) = 3
    /\ ret.value.ready_for_summary
    /\ ret.value.recommendation = WrapUp

\* C28: a dimension is covered exactly when one single turn of the user
\* contains, case-insensitively, one of the dimension's keywords as a
\* substring.  Turns of the assistant cover nothing, and no keyword is matched
\* across the boundary of two turns.
CoveredBySingleUserTurn ==
    ret.op = "_run" =>
        \A d \in Dimensions :
            (d \in DOMAIN ret.value.coverage /\ ret.value.coverage[d]) <=>
                \E i \in UserTurns(conversation_history), keyword \in Keywords(d) :
                    contains(lower(conversation_history[i].content), lower(keyword))

\* two consecutive turns of the user held the halves of a keyword, a turn of
\* the assistant held a keyword, and only the dimension of the capitalised
\* keyword was reported as covered
CoveredBySingleUserTurnWitness ==
    /\ ret.op = "_run"
    /\ \E i \in 1..(Len(conversation_history) - 1) :
          /\ conversation_history[i] = [role |-> "user", content |-> <<"b", "o">>]
          /\ conversation_history[i + 1] = [role |-> "user", content |-> <<"o", "k">>]
    /\ \E i \in 1..Len(conversation_history) :
          /\ conversation_history[i].role = "assistant"
          /\ contains(conversation_history[i].content, <<"r", "e", "a", "d">>)
    /\ \E i \in UserTurns(conversation_history) :
          conversation_history[i].content = <<"P", "r", "o", "s", "e">>
    /\ {d \in Dimensions : ret.value.coverage[d]} = {"style_preference"}

====
